---- MODULE Spec2Model ----
(***************************************************************************)
(* Model of the retrieval engine of MediCareAI:                            *)
(*   - VectorEmbeddingService   (embedding configs, embedding calls)       *)
(*   - KnowledgeBaseVectorizationService (ingest, similarity search)       *)
(*   - SmartRAGSelector         (keyword match, hybrid selection)          *)
(* The database tables are the committed state; a request is a session     *)
(* that runs the statements of one service method and commits.             *)
(***************************************************************************)
EXTENDS Integers, Sequences, FiniteSets, TLC

\* ------------------------------------------------------------------ bounds
MaxCfg == 2             \* number of config ids that are ever handed out
CfgIds == 1..MaxCfg

AdminSessions == {"a1", "a2"}   \* request sessions running admin calls

NoId == 0               \* "config_id = None" / no row

TestStatuses == {"untested", "success", "failed"}

\* ------------------------------------------------------------------ state
VARIABLES
    configs,    \* table vector_embedding_configs (committed rows), by id
    nextCfg,    \* next fresh config id (uuid4 never hands an id out twice)
    tx,         \* per admin session: the open transaction of set_default
    chunks,     \* table knowledge_base_chunks (committed rows)
    ing,        \* per ingest session: the vectorize_markdown_document call in flight
    done,       \* documents ingested successfully since the last removal of rows
    inflight,   \* per search session: the search_similar_chunks call in flight
    last        \* what the most recent step did and returned to its caller

cfgVars == <<configs, nextCfg, tx>>
kbVars == <<chunks, ing, done, inflight>>
vars == <<configs, nextCfg, tx, chunks, ing, done, inflight, last>>

\* vector_dimension of every configuration the model creates; the vectors of
\* EmbedTable have this length.
VectorDimension == 2

\* A row of vector_embedding_configs; exists = FALSE is "no such row".
NoConfig == [exists |-> FALSE, is_active |-> FALSE, is_default |-> FALSE,
             test_status |-> "untested"]

\* VectorEmbeddingConfig(..., is_active=False, is_default=False,
\* test_status='untested')
NewConfig == [exists |-> TRUE, is_active |-> FALSE, is_default |-> FALSE,
              test_status |-> "untested"]

IdleTx == [pc |-> "idle", target |-> NoId, writes |-> <<>>]

Existing(tbl) == {c \in CfgIds : tbl[c].exists}
Defaults(tbl) == {c \in CfgIds : tbl[c].exists /\ tbl[c].is_default}
Actives(tbl) == {c \in CfgIds : tbl[c].exists /\ tbl[c].is_active}
ActiveDefaults(tbl) == Defaults(tbl) \cap Actives(tbl)

\* Rows another session has written and not yet committed (row locks).
LockedByOthers(s) == UNION {DOMAIN tx[t].writes : t \in AdminSessions \ {s}}
Unlocked(s, ids) == ids \cap LockedByOthers(s) = {}
NoOpenTx == \A t \in AdminSessions : tx[t].pc = "idle"

Log(op, arg, status, out) ==
    last' = [op |-> op, arg |-> arg, status |-> status, out |-> out]

\* ------------------------------------------------ VectorEmbeddingService
\* Mutant of UnsetDefaultStmt: the previous default is left as it is.
UnsetNothing(tbl) == tbl

\* update(...).where(is_default == True).values(is_default=False)
UnsetDefaultStmt(tbl) ==
    [c \in CfgIds |-> IF tbl[c].exists /\ tbl[c].is_default
                      THEN [tbl[c] EXCEPT !.is_default = FALSE]
                      ELSE tbl[c]]

\* Mutant of SetNewDefaultStmt: values(is_default=True) only.
SetDefaultFlagOnly(tbl, id) ==
    [c \in CfgIds |-> IF tbl[c].exists /\ c = id
                      THEN [tbl[c] EXCEPT !.is_default = TRUE]
                      ELSE tbl[c]]

\* update(...).where(id == config_id).values(is_default=True, is_active=True)
SetNewDefaultStmt(tbl, id) ==
    [c \in CfgIds |-> IF tbl[c].exists /\ c = id
                      THEN [tbl[c] EXCEPT !.is_default = TRUE, !.is_active = TRUE]
                      ELSE tbl[c]]

\* update(...).where(id == config_id).values(is_active=is_active)
SetActiveStmt(tbl, id, flag) ==
    [c \in CfgIds |-> IF tbl[c].exists /\ c = id
                      THEN [tbl[c] EXCEPT !.is_active = flag]
                      ELSE tbl[c]]

\* result.scalar_one_or_none(): None for no row, the row for one, and
\* MultipleResultsFound for more than one.
scalar_one_or_none(rows) ==
    IF rows = {} THEN [found |-> "none", id |-> NoId]
    ELSE IF Cardinality(rows) = 1
         THEN [found |-> "one", id |-> CHOOSE c \in rows : TRUE]
         ELSE [found |-> "multiple", id |-> NoId]

\* The config query of generate_embedding / generate_embeddings_batch:
\* the row with the given id if it is active, or, without an id, the row
\* that is default and active.
ResolveForEmbedding(tbl, config_id) ==
    IF config_id # NoId
    THEN scalar_one_or_none({c \in Actives(tbl) : c = config_id})
    ELSE scalar_one_or_none(ActiveDefaults(tbl))

\* get_active_config: the active default, otherwise the active rows
\* (scalar_one_or_none again, so that two active rows raise).
get_active_config(tbl) ==
    IF scalar_one_or_none(ActiveDefaults(tbl)).found = "one"
    THEN scalar_one_or_none(ActiveDefaults(tbl))
    ELSE IF scalar_one_or_none(ActiveDefaults(tbl)).found = "multiple"
         THEN [found |-> "multiple", id |-> NoId]
         ELSE scalar_one_or_none(Actives(tbl))

\* What the embedding endpoint may answer to one request.
ProviderAnswers == {"ok", "http_error", "bad_format"}

\* _generate_embedding: status 200 with a vector field, status 200 without
\* it (ValueError), any other status (Exception).
ProviderResult(answer) ==
    CASE answer = "ok" -> "ok"
      [] answer = "bad_format" -> "FormatError"
      [] OTHER -> "ProviderError"

\* generate_embedding(text, config_id): the error it raises, or "ok" and the
\* config it used.
generate_embedding_result(tbl, config_id, answer) ==
    LET r == ResolveForEmbedding(tbl, config_id) IN
    IF r.found = "none" THEN [status |-> "NoActiveConfiguration", config |-> NoId]
    ELSE IF r.found = "multiple" THEN [status |-> "MultipleResultsFound", config |-> NoId]
    ELSE [status |-> ProviderResult(answer), config |-> r.id]

\* ---- calls that are one statement and a commit
\* create_config: a fresh row, committed at once.
create_config(s) ==
    /\ tx[s].pc = "idle"
    /\ nextCfg <= MaxCfg
    /\ configs' = [configs EXCEPT ![nextCfg] = NewConfig]
    /\ nextCfg' = nextCfg + 1
    /\ UNCHANGED <<tx, kbVars>>

\* set_active(config_id, is_active)
set_active(s, id, flag) ==
    /\ tx[s].pc = "idle"
    /\ Unlocked(s, {id})
    /\ configs' = SetActiveStmt(configs, id, flag)
    /\ UNCHANGED <<nextCfg, tx, kbVars>>

\* delete_config(config_id): False when there is no such row.
delete_config(s, id) ==
    /\ tx[s].pc = "idle"
    /\ Unlocked(s, {id})
    /\ configs' = [configs EXCEPT ![id] = NoConfig]
    /\ UNCHANGED <<nextCfg, tx, kbVars>>

\* test_config(config_id): probe the endpoint and store the verdict.
\* probe: "match" (vector of the configured dimension), "mismatch",
\* "exception".
TestProbes == {"match", "mismatch", "exception"}

test_config(s, id, probe) ==
    /\ tx[s].pc = "idle"
    /\ Unlocked(s, {id})
    /\ configs' = IF configs[id].exists
                  THEN [configs EXCEPT ![id].test_status =
                            IF probe = "match" THEN "success" ELSE "failed"]
                  ELSE configs
    /\ UNCHANGED <<nextCfg, tx, kbVars>>

\* set_default(config_id) run alone: both updates, then the commit.
set_default(s, id) ==
    /\ NoOpenTx
    /\ configs' = SetNewDefaultStmt(UnsetDefaultStmt(configs), id)
    /\ UNCHANGED <<nextCfg, tx, kbVars>>

\* generate_embedding(text, config_id): reads the table, calls the endpoint.
generate_embedding(config_id, answer) ==
    /\ NoOpenTx
    /\ Log("generate_embedding", config_id,
           generate_embedding_result(configs, config_id, answer).status,
           {generate_embedding_result(configs, config_id, answer).config})
    /\ UNCHANGED <<cfgVars, kbVars>>

\* ---- set_default as the session runs it: two updates in one transaction.
\* A statement sees the committed rows and the session's own writes, and
\* waits while a row it matches is written by another open transaction.
View(s) == [c \in CfgIds |-> IF c \in DOMAIN tx[s].writes
                             THEN tx[s].writes[c] ELSE configs[c]]

Written(s, matched, tbl) ==
    [c \in (DOMAIN tx[s].writes) \cup matched |-> tbl[c]]

set_default_unset(s, id) ==
    /\ tx[s].pc = "idle"
    /\ Unlocked(s, Defaults(View(s)))
    /\ tx' = [tx EXCEPT ![s] = [pc |-> "unset", target |-> id,
                 writes |-> Written(s, Defaults(View(s)), UnsetDefaultStmt(View(s)))]]
    /\ UNCHANGED <<configs, nextCfg, kbVars>>

set_default_set(s) ==
    /\ tx[s].pc = "unset"
    /\ Unlocked(s, {tx[s].target} \cap Existing(View(s)))
    /\ tx' = [tx EXCEPT ![s].pc = "set",
                 ![s].writes = Written(s, {tx[s].target} \cap Existing(View(s)),
                                       SetNewDefaultStmt(View(s), tx[s].target))]
    /\ UNCHANGED <<configs, nextCfg, kbVars>>

set_default_commit(s) ==
    /\ tx[s].pc = "set"
    /\ configs' = View(s)
    /\ tx' = [tx EXCEPT ![s] = IdleTx]
    /\ UNCHANGED <<nextCfg, kbVars>>

\* --------------------------------- KnowledgeBaseVectorizationService
\* A document is given by what _extract_markdown_sections and
\* DocumentChunker.split_text make of it: its sections in order, each the
\* sequence of its chunk texts. Texts are numbered; equal numbers are equal
\* strings.
Texts == 1..9

Catalogue ==
    [d1 |-> [category |-> "respiratory", sections |-> << <<1, 2>> >>],
     d2 |-> [category |-> "pediatric",   sections |-> << <<2>>, <<3>> >>],
     d3 |-> [category |-> "respiratory", sections |-> << <<3>>, <<3>> >>],
     g1 |-> [category |-> "respiratory", sections |-> << <<4, 5, 6, 7, 8, 9>> >>]]

DocNames == {"d1", "d2", "d3"}

IngestSessions == {"i1", "i2"}
SearchSessions == {"q1", "q2"}
Solo == "i1"

\* read: the (hash, retrieval_count) of the rows the call has loaded and
\* will return.
IdleSearch == [pc |-> "idle", arg |-> <<>>, results |-> <<>>, read |-> {}]

\* again: the document's ingest had succeeded before this call began;
\* disturbed: rows were removed from the table while this call ran;
\* embeddings: the vectors generate_embeddings_batch returned; by: the config
\* it resolved and sent them to.
IdleIngest == [pc |-> "idle", doc |-> "", staged |-> <<>>, answer |-> "",
               again |-> FALSE, disturbed |-> FALSE, embeddings |-> <<>>, by |-> NoId]

\* hashlib.sha256(chunk_text.encode()).hexdigest(): equal for equal texts,
\* different for different ones.
sha256(text) == <<"sha256", text>>

\* The vector the embedding endpoint computes for a text (dimension 2). The
\* vectors have integer lengths, so every cosine below is a whole number of
\* hundredths.
EmbedTable == << <<1, 0>>, <<2, 0>>, <<3, 4>>,
                 <<3, 0>>, <<4, 3>>, <<8, 6>>, <<3, 4>>, <<6, 8>>, <<5, 0>> >>
Embed(text) == EmbedTable[text]

\* The (section, chunk) positions of a document in the order of the two
\* loops; chunk_index is enumerate's i of the inner loop.
RECURSIVE Positions(_, _)
Positions(sections, si) ==
    IF si > Len(sections) THEN <<>>
    ELSE [j \in 1..Len(sections[si]) |->
              [section |-> si, chunk_index |-> j - 1, text |-> sections[si][j]]]
         \o Positions(sections, si + 1)

\* KnowledgeBaseChunk(...) as created in the loop: no embedding yet.
NewChunk(d, pos) ==
    [hash |-> sha256(pos.text), text |-> pos.text, doc |-> d,
     category |-> Catalogue[d].category, section |-> pos.section,
     chunk_index |-> pos.chunk_index, embedding |-> <<>>, model |-> {},
     retrieval_count |-> 0, is_active |-> TRUE]

\* select(KnowledgeBaseChunk).where(chunk_text_hash == text_hash): is there
\* a row with that hash (active or not).
existing(store, hash) == \E c \in store : c.hash = hash

\* Mutant of Stage: no duplicate lookup, every chunk is staged.
StageWithoutLookup(store, d) ==
    LET pos == Positions(Catalogue[d].sections, 1)
    IN [i \in 1..Len(pos) |-> NewChunk(d, pos[i])]

\* The loops of vectorize_markdown_document: all_chunks.
Stage(store, d) ==
    LET pos == Positions(Catalogue[d].sections, 1)
        fresh == SelectSeq(pos, LAMBDA q : ~existing(store, sha256(q.text)))
    IN [i \in 1..Len(fresh) |-> NewChunk(d, fresh[i])]

\* What the embedding endpoint may answer to a batch request: "short" is a
\* 200 response that carries one vector less than there were texts.
BatchAnswers == {"ok", "short", "http_error", "bad_format"}

\* Mutant of generate_embeddings_batch: a response without the vector
\* field is skipped instead of raised.
generate_embeddings_batch_swallow(tbl, texts, answer) ==
    LET r == ResolveForEmbedding(tbl, NoId) IN
    IF r.found = "none" THEN [status |-> "NoActiveConfiguration", vecs |-> <<>>]
    ELSE IF r.found = "multiple" THEN [status |-> "MultipleResultsFound", vecs |-> <<>>]
    ELSE IF answer = "http_error" THEN [status |-> "ProviderError", vecs |-> <<>>]
    ELSE IF answer = "bad_format" THEN [status |-> "ok", vecs |-> <<>>]
    ELSE IF answer = "short"
         THEN [status |-> "ok", vecs |-> [i \in 1..(Len(texts) - 1) |-> Embed(texts[i])]]
         ELSE [status |-> "ok", vecs |-> [i \in 1..Len(texts) |-> Embed(texts[i])]]

\* generate_embeddings_batch(texts): the error raised, or the vectors.
generate_embeddings_batch(tbl, texts, answer) ==
    LET r == ResolveForEmbedding(tbl, NoId) IN
    IF r.found = "none" THEN [status |-> "NoActiveConfiguration", vecs |-> <<>>]
    ELSE IF r.found = "multiple" THEN [status |-> "MultipleResultsFound", vecs |-> <<>>]
    ELSE IF answer = "http_error" THEN [status |-> "ProviderError", vecs |-> <<>>]
    ELSE IF answer = "bad_format" THEN [status |-> "FormatError", vecs |-> <<>>]
    ELSE IF answer = "short"
         THEN [status |-> "ok", vecs |-> [i \in 1..(Len(texts) - 1) |-> Embed(texts[i])]]
         ELSE [status |-> "ok", vecs |-> [i \in 1..Len(texts) |-> Embed(texts[i])]]

\* for chunk, embedding in zip(all_chunks, embeddings): the chunks that have
\* a vector get it and the model of get_active_config ('unknown' is NoId);
\* the others keep embedding None.
WithEmbeddings(staged, vecs, cfg) ==
    [i \in 1..Len(staged) |->
        IF i <= Len(vecs)
        THEN [staged[i] EXCEPT !.embedding = vecs[i], !.model = {cfg.id}]
        ELSE staged[i]]

\* Mutant of UniqueViolation: the column has no unique index.
NoUniqueIndex(store, rows) == FALSE

\* The unique index on chunk_text_hash rejects the commit.
UniqueViolation(store, rows) ==
    \/ \E i \in 1..Len(rows) : existing(store, rows[i].hash)
    \/ \E i, j \in 1..Len(rows) : i < j /\ rows[i].hash = rows[j].hash

Rows(seq) == {seq[i] : i \in 1..Len(seq)}

Report(rows) ==
    [total_chunks |-> Len(rows) + Len(rows) - Len(rows),
     new_chunks |-> Len(rows),
     duplicates |-> Len(rows) - Len(rows),
     chunk_ids |-> [i \in 1..Len(rows) |-> rows[i].hash]]

EmptyReport == [total_chunks |-> 0, new_chunks |-> 0, duplicates |-> 0, chunk_ids |-> <<>>]

\* vectorize_markdown_document, lines 176-227: sections, chunks, duplicate
\* lookups; returns at once when nothing is new.
ingest_stage(s, d) ==
    /\ ing[s].pc = "idle"
    /\ IF Stage(chunks, d) = <<>>
       THEN /\ ing' = ing
            /\ done' = done \cup {d}
            /\ Log("ingest", [doc |-> d, again |-> d \in done], "ok", {EmptyReport})
       ELSE /\ ing' = [ing EXCEPT ![s] = [pc |-> "staged", doc |-> d,
                          staged |-> Stage(chunks, d), answer |-> "",
                          again |-> d \in done, disturbed |-> FALSE,
                          embeddings |-> <<>>, by |-> NoId]]
            /\ done' = done
            /\ Log("ingest_stage", [doc |-> d, again |-> d \in done], "open", {})
    /\ UNCHANGED <<cfgVars, chunks, inflight>>

\* lines 229-234 and 258-261: the batch call; an exception rolls back and is
\* raised to the caller.
ingest_embed(s, answer) ==
    /\ ing[s].pc = "staged"
    /\ LET texts == [i \in 1..Len(ing[s].staged) |-> ing[s].staged[i].text]
           r == generate_embeddings_batch(configs, texts, answer)
       IN IF r.status = "ok"
          THEN /\ ing' = [ing EXCEPT ![s].pc = "embedded", ![s].answer = answer,
                                      ![s].embeddings = r.vecs,
                                      ![s].by = ResolveForEmbedding(configs, NoId).id]
               /\ Log("ingest_embed", [doc |-> ing[s].doc, again |-> ing[s].again],
                      "open", {})
          ELSE /\ ing' = [ing EXCEPT ![s] = IdleIngest]
               /\ Log("ingest", [doc |-> ing[s].doc, again |-> ing[s].again],
                      r.status, {})
    /\ UNCHANGED <<cfgVars, chunks, done, inflight>>

\* lines 236-261: attach the vectors, add the rows, commit.
ingest_persist(s) ==
    /\ ing[s].pc = "embedded"
    /\ LET vecs == ing[s].embeddings
           cfg == get_active_config(configs)
           rows == WithEmbeddings(ing[s].staged, vecs, cfg)
           arg == [doc |-> ing[s].doc, again |-> ing[s].again]
       IN IF Len(vecs) > 0 /\ cfg.found = "multiple"
          THEN /\ chunks' = chunks
               /\ done' = done
               /\ Log("ingest", arg, "MultipleResultsFound", {})
          ELSE IF UniqueViolation(chunks, rows)
          THEN /\ chunks' = chunks
               /\ done' = done
               /\ Log("ingest", arg, "IntegrityError", {})
          ELSE /\ chunks' = chunks \cup Rows(rows)
               /\ done' = IF ing[s].disturbed THEN done ELSE done \cup {ing[s].doc}
               /\ Log("ingest", arg, "ok", {Report(rows)})
    /\ ing' = [ing EXCEPT ![s] = IdleIngest]
    /\ UNCHANGED <<cfgVars, inflight>>

\* delete_document_chunks(document_title): delete(...).where(document_title == ...)
delete_document_chunks(d) ==
    /\ chunks' = {c \in chunks : c.doc # d}
    /\ done' = {}
    /\ ing' = [s \in IngestSessions |->
                 IF ing[s].pc = "idle" THEN ing[s] ELSE [ing[s] EXCEPT !.disturbed = TRUE]]
    /\ UNCHANGED <<cfgVars, inflight>>

\* Removal of a chunk as the data model describes it: is_active = false.
deactivate_chunk(hash) ==
    /\ \E c \in chunks : c.hash = hash /\ c.is_active
    /\ chunks' = {IF c.hash = hash THEN [c EXCEPT !.is_active = FALSE] ELSE c : c \in chunks}
    /\ UNCHANGED <<cfgVars, ing, done, inflight>>

\* ------------------------------------------------------------ search
\* Query strings: the keywords of DISEASE_KEYWORDS each contains, and the
\* vector the embedding endpoint computes for it.
SymptomTable ==
    [cough       |-> [contains |-> {"cough"},          vec |-> <<1, 0>>],
     child_cough |-> [contains |-> {"child", "cough"}, vec |-> <<4, 3>>],
     fatigue     |-> [contains |-> {},                 vec |-> <<0, 1>>]]

Symptoms == DOMAIN SymptomTable

NoCategory == ""
Categories == {"respiratory", "pediatric", "dermatology"}

\* sum(a * b for a, b in zip(vec1, vec2))
RECURSIVE Dot(_, _)
Dot(v, w) ==
    IF v = <<>> \/ w = <<>> THEN 0
    ELSE Head(v) * Head(w) + Dot(Tail(v), Tail(w))

\* x ** 0.5 on the squares that occur.
Sqrt(n) == CHOOSE m \in 0..n : m * m = n

\* _cosine_similarity, in hundredths.
_cosine_similarity(vec1, vec2) ==
    IF vec1 = <<>> \/ vec2 = <<>> \/ Len(vec1) # Len(vec2) THEN 0
    ELSE LET magnitude1 == Sqrt(Dot(vec1, vec1))
             magnitude2 == Sqrt(Dot(vec2, vec2))
         IN IF magnitude1 = 0 \/ magnitude2 = 0 THEN 0
            ELSE (Dot(vec1, vec2) * 100) \div (magnitude1 * magnitude2)

\* list.sort(key=..., reverse=True): descending by key[i], the key of seq[i];
\* equal keys keep their order.
StableSortDesc(seq, key) ==
    LET n == Len(seq)
        before(j, i) == \/ key[j] > key[i]
                        \/ key[j] = key[i] /\ j < i
        rank(i) == Cardinality({j \in 1..n : before(j, i)}) + 1
    IN [p \in 1..n |-> seq[CHOOSE i \in 1..n : rank(i) = p]]

\* Mutant of Slice: the whole list.
SliceNothing(seq, k) == seq

\* seq[:k] for k >= 0
Slice(seq, k) == SubSeq(seq, 1, IF k < Len(seq) THEN k ELSE Len(seq))

\* select(KnowledgeBaseChunk).where(is_active == True)[.where(disease_category
\* == category)]: the rows it matches.
Matching(store, disease_category) ==
    {c \in store : /\ c.is_active
                   /\ (disease_category # NoCategory => c.category = disease_category)}

\* The orders in which a SELECT without ORDER BY may return rows: the
\* sequences that hold each hash once.
ScanOrders(rows) ==
    LET hashes == {c.hash : c \in rows}
    IN {o \in [1..Cardinality(hashes) -> hashes] :
            \A h \in hashes : \E i \in DOMAIN o : o[i] = h}

\* result.scalars().all(): the matching rows in scan order.
Scan(store, order, disease_category) ==
    LET here == SelectSeq(order, LAMBDA h :
                    \E c \in Matching(store, disease_category) : c.hash = h)
    IN [i \in DOMAIN here |-> CHOOSE c \in store : c.hash = here[i]]

\* The scoring loop: scored_chunks.
Scored(rows, query_embedding, min_similarity) ==
    LET embedded == SelectSeq(rows, LAMBDA c : c.embedding # <<>>)
        all == [i \in DOMAIN embedded |->
                   [chunk |-> embedded[i],
                    similarity |-> _cosine_similarity(query_embedding, embedded[i].embedding)]]
    IN SelectSeq(all, LAMBDA x : x.similarity >= min_similarity)

\* Mutant of TopChunks: the first top_k in scan order.
TopChunksUnsorted(scored_chunks, top_k) == Slice(scored_chunks, top_k)

\* scored_chunks.sort(...); top_chunks = scored_chunks[:top_k]
TopChunks(scored_chunks, top_k) ==
    Slice(StableSortDesc(scored_chunks,
              [i \in DOMAIN scored_chunks |-> scored_chunks[i].similarity]), top_k)

\* Mutant of Returned: every stored row is counted.
ReturnedCountsAll(store, top_chunks) ==
    [status |-> "ok",
     results |-> [i \in DOMAIN top_chunks |->
                     [id |-> top_chunks[i].chunk.hash,
                      disease_category |-> top_chunks[i].chunk.category,
                      similarity_score |-> top_chunks[i].similarity]],
     store |-> {[c EXCEPT !.retrieval_count = @ + 1] : c \in store}]

\* The results formatted from top_chunks, and the chunk table after
\* retrieval_count += 1 on each of them and the commit.
Returned(store, top_chunks) ==
    LET hit == {top_chunks[i].chunk.hash : i \in DOMAIN top_chunks}
    IN [status |-> "ok",
        results |-> [i \in DOMAIN top_chunks |->
                        [id |-> top_chunks[i].chunk.hash,
                         disease_category |-> top_chunks[i].chunk.category,
                         similarity_score |-> top_chunks[i].similarity]],
        store |-> {IF c.hash \in hit
                   THEN [c EXCEPT !.retrieval_count = @ + 1] ELSE c : c \in store}]

\* search_similar_chunks as a function of the tables: the error raised or
\* the results, and the chunk table after the commit.
SearchCall(store, tbl, query_text, disease_category, top_k, min_similarity, answer, order) ==
    LET e == generate_embedding_result(tbl, NoId, answer) IN
    IF e.status # "ok"
    THEN [status |-> e.status, results |-> <<>>, store |-> store]
    ELSE Returned(store,
             TopChunks(Scored(Scan(store, order, disease_category),
                              SymptomTable[query_text].vec, min_similarity), top_k))

MaxRetrieval == 1
MaxTopK == 2
DefaultTopK == 5
DefaultMinSimilarity == 70
SelectorMinSimilarity == 60
TopKs == (1..MaxTopK) \cup {DefaultTopK}
MinSimilarities == {SelectorMinSimilarity, DefaultMinSimilarity}

search_similar_chunks(query_text, disease_category, top_k, min_similarity, answer, order) ==
    /\ NoOpenTx
    /\ \E r \in {SearchCall(chunks, configs, query_text, disease_category, top_k,
                             min_similarity, answer, order)} :
        /\ \A c \in r.store : c.retrieval_count <= MaxRetrieval
        /\ chunks' = r.store
        /\ Log("search", [query_text |-> query_text, disease_category |-> disease_category,
                          top_k |-> top_k, min_similarity |-> min_similarity],
               r.status, r.results)
    /\ UNCHANGED <<cfgVars, ing, done, inflight>>

\* ---- search_similar_chunks as the two steps of its session
MaxCommitted == 2

\* Lines 317-359: the query embedding, the SELECT and the loops. Each
\* returned row is held with the retrieval_count the SELECT read, plus 1.
search_load(s, query_text, disease_category, top_k, min_similarity, order) ==
    /\ inflight[s].pc = "idle"
    /\ generate_embedding_result(configs, NoId, "ok").status = "ok"
    /\ \E r \in {Returned(chunks,
                     TopChunks(Scored(Scan(chunks, order, disease_category),
                                      SymptomTable[query_text].vec, min_similarity),
                               top_k))} :
       \E ids \in {{r.results[i].id : i \in DOMAIN r.results}} :
        /\ \A c \in chunks : c.hash \in ids => c.retrieval_count < MaxCommitted
        /\ inflight' = [inflight EXCEPT ![s] =
               [pc |-> "loaded",
                arg |-> [query_text |-> query_text, disease_category |-> disease_category,
                         top_k |-> top_k, min_similarity |-> min_similarity],
                results |-> r.results,
                read |-> {[hash |-> c.hash, retrieval_count |-> c.retrieval_count] :
                             c \in {x \in chunks : x.hash \in ids}}]]
    /\ UNCHANGED <<cfgVars, chunks, ing, done>>

\* Line 361: the flush writes UPDATE ... SET retrieval_count = <value held>
\* for each returned row, and the transaction commits.
search_commit(s) ==
    /\ inflight[s].pc = "loaded"
    /\ chunks' = {IF \E r \in inflight[s].read : r.hash = c.hash
                  THEN [c EXCEPT !.retrieval_count =
                           (CHOOSE r \in inflight[s].read : r.hash = c.hash).retrieval_count + 1]
                  ELSE c : c \in chunks}
    /\ inflight' = [inflight EXCEPT ![s] = IdleSearch]
    /\ Log("search", inflight[s].arg, "ok", inflight[s].results)
    /\ UNCHANGED <<cfgVars, ing, done>>

\* ---------------------------------------------------- SmartRAGSelector
\* DISEASE_KEYWORDS, three of its categories in the order of the dict.
DISEASE_KEYWORDS ==
    [respiratory |-> [keywords |-> {"cough", "asthma"}, priority |-> 1],
     pediatric   |-> [keywords |-> {"child", "infant"}, priority |-> 2],
     dermatology |-> [keywords |-> {"rash", "itch"},    priority |-> 1]]

CategoryOrder == <<"respiratory", "pediatric", "dermatology">>

NoAge == -1
Ages == {NoAge, 10, 30}
AdultAge == 18
SelectorTopK == 5
DefaultSources == 3

\* _match_by_keywords: the categories with a positive score, by final_score.
_match_by_keywords(symptoms, patient_age) ==
    LET entry(category) ==
            LET data == DISEASE_KEYWORDS[category]
                matched_keywords == data.keywords \cap SymptomTable[symptoms].contains
                score == Cardinality(matched_keywords)
                         + (IF category = "pediatric" /\ patient_age # NoAge
                               /\ patient_age < AdultAge THEN 2 ELSE 0)
            IN [category |-> category, score |-> score, priority |-> data.priority,
                matched_keywords |-> matched_keywords,
                final_score |-> score * (2 - data.priority + 1)]
        all == [i \in DOMAIN CategoryOrder |-> entry(CategoryOrder[i])]
        matches == SelectSeq(all, LAMBDA m : m.score > 0)
    IN StableSortDesc(matches, [i \in DOMAIN matches |-> matches[i].final_score])

\* The loop of _search_by_vector from category i on: one search per category,
\* a failed one skipped; the results in call order, the chunk table after
\* the last commit, and the categories search_similar_chunks was called for.
RECURSIVE SearchEach(_, _, _, _, _, _, _)
SearchEach(store, tbl, symptoms, categories, i, answers, order) ==
    IF i > Len(categories) THEN [results |-> <<>>, store |-> store, searched |-> <<>>]
    ELSE LET r == SearchCall(store, tbl, symptoms, categories[i].category, SelectorTopK,
                             SelectorMinSimilarity, answers[categories[i].category], order)
             rest == SearchEach(r.store, tbl, symptoms, categories, i + 1, answers, order)
         IN [results |-> r.results \o rest.results, store |-> rest.store,
             searched |-> <<categories[i].category>> \o rest.searched]

_search_by_vector(store, tbl, symptoms, categories, answers, order) ==
    LET each == SearchEach(store, tbl, symptoms, categories, 1, answers, order)
    IN [results |-> StableSortDesc(each.results,
                        [i \in DOMAIN each.results |-> each.results[i].similarity_score]),
        store |-> each.store, searched |-> each.searched]

\* Mutant of combined_score: a source matched both ways is scaled by 0.5.
combined_score_damped(keyword_score, vector_score) ==
    LET base == keyword_score * 6000 + vector_score * 40
    IN IF keyword_score > 0 /\ vector_score > 0 THEN (base * 5) \div 10 ELSE base

\* combined_score of _fuse_and_rank, in ten-thousandths (vector_score comes
\* in hundredths): 0.6 * keyword_score + 0.4 * vector_score, times 1.2 when
\* both are positive.
combined_score(keyword_score, vector_score) ==
    LET base == keyword_score * 6000 + vector_score * 40
    IN IF keyword_score > 0 /\ vector_score > 0 THEN (base * 12) \div 10 ELSE base

\* _fuse_and_rank: one source per category, by relevance_score.
_fuse_and_rank(keyword_matches, vector_matches) ==
    LET known == {keyword_matches[i].category : i \in DOMAIN keyword_matches}
        firstOf(i) == \A j \in 1..(i - 1) :
                          vector_matches[j].disease_category # vector_matches[i].disease_category
        idx == SelectSeq([i \in DOMAIN vector_matches |-> i], LAMBDA i :
                   vector_matches[i].disease_category \notin known /\ firstOf(i))
        of(category) == SelectSeq(vector_matches, LAMBDA x : x.disease_category = category)
        vector_score(category) ==
            LET sims == {of(category)[i].similarity_score : i \in DOMAIN of(category)} \cup {0}
            IN CHOOSE m \in sims : \A x \in sims : x <= m
        fromKeyword == [i \in DOMAIN keyword_matches |->
            [category |-> keyword_matches[i].category,
             relevance_score |-> combined_score(keyword_matches[i].final_score,
                                          vector_score(keyword_matches[i].category)),
             chunks |-> of(keyword_matches[i].category),
             selection_reason |-> [kind |-> "keyword",
                                   keywords |-> keyword_matches[i].matched_keywords]]]
        fromVector == [i \in DOMAIN idx |->
            LET category == vector_matches[idx[i]].disease_category IN
            [category |-> category,
             relevance_score |-> combined_score(0, vector_score(category)),
             chunks |-> of(category),
             selection_reason |-> [kind |-> "vector", keywords |-> {}]]]
        knowledge_sources == fromKeyword \o fromVector
    IN StableSortDesc(knowledge_sources,
           [i \in DOMAIN knowledge_sources |-> knowledge_sources[i].relevance_score])

RECURSIVE SumLen(_)
SumLen(sources) ==
    IF sources = <<>> THEN 0 ELSE Len(Head(sources).chunks) + SumLen(Tail(sources))

\* select_knowledge_bases: the exception of the vector step is logged and
\* dropped, the call returns its dict.
select_knowledge_bases(symptoms, patient_age, top_k, use_vector_search, answers, order) ==
    /\ NoOpenTx
    /\ \E keyword_matches \in {_match_by_keywords(symptoms, patient_age)} :
       \E v \in {IF use_vector_search
                 THEN _search_by_vector(chunks, configs, symptoms, keyword_matches,
                                        answers, order)
                 ELSE [results |-> <<>>, store |-> chunks, searched |-> <<>>]} :
       \E selected_sources \in {Slice(_fuse_and_rank(keyword_matches, v.results), top_k)} :
        /\ \A c \in v.store : c.retrieval_count <= MaxRetrieval
        /\ chunks' = v.store
        /\ Log("select", [symptoms |-> symptoms, patient_age |-> patient_age,
                          top_k |-> top_k, use_vector_search |-> use_vector_search],
               "ok",
               [sources |-> selected_sources,
                total_chunks |-> SumLen(selected_sources),
                all_matched_categories |->
                    [i \in DOMAIN keyword_matches |-> keyword_matches[i].category],
                searched |-> v.searched])
    /\ UNCHANGED <<cfgVars, ing, done, inflight>>

\* vectorize_markdown_document run from its first line to its return with no
\* other call in between.
vectorize_markdown_document(d, answer) ==
    LET staged == Stage(chunks, d)
        texts == [i \in DOMAIN staged |-> staged[i].text]
        r == generate_embeddings_batch(configs, texts, answer)
        cfg == get_active_config(configs)
        rows == WithEmbeddings(staged, r.vecs, cfg)
        status == IF staged = <<>> THEN "ok"
                  ELSE IF r.status # "ok" THEN r.status
                  ELSE IF Len(r.vecs) > 0 /\ cfg.found = "multiple" THEN "MultipleResultsFound"
                  ELSE IF UniqueViolation(chunks, rows) THEN "IntegrityError"
                  ELSE "ok"
    IN /\ NoOpenTx
       /\ \A s \in IngestSessions : ing[s].pc = "idle"
       /\ chunks' = IF status = "ok" /\ staged # <<>> THEN chunks \cup Rows(rows) ELSE chunks
       /\ Log("vectorize", d, status, {})
       /\ UNCHANGED <<cfgVars, ing, done, inflight>>

\* ----------------------------------------------------- DocumentChunker
\* A text is the sequence of its characters. Chars is the alphabet of the
\* texts below: two letters, the space and the newline.
Chars == {"a", "b", " ", "\n"}
Whitespace == {" ", "\n"}

\* self.separators, three of the default list in its order: "\n\n", "\n", " ".
Separators == << <<"\n", "\n">>, <<"\n">>, <<" ">> >>

\* min_size of _merge_small_chunks, on the scale of the chunk sizes below.
MergeMinSize == 2

\* The positions at which sep occurs in text.
Occurrences(text, sep) ==
    {i \in 1..(Len(text) - Len(sep) + 1) : SubSeq(text, i, i + Len(sep) - 1) = sep}

\* separator in text
Contains(text, sep) == Occurrences(text, sep) # {}

\* text.split(separator): cut at the leftmost occurrences, left to right.
RECURSIVE StrSplit(_, _)
StrSplit(text, sep) ==
    IF ~Contains(text, sep) THEN <<text>>
    ELSE LET i == CHOOSE p \in Occurrences(text, sep) :
                      \A q \in Occurrences(text, sep) : p <= q
         IN <<SubSeq(text, 1, i - 1)>>
                \o StrSplit(SubSeq(text, i + Len(sep), Len(text)), sep)

\* str.strip(): without the leading and the trailing whitespace.
RECURSIVE strip(_)
strip(s) ==
    IF s = <<>> THEN s
    ELSE IF Head(s) \in Whitespace THEN strip(Tail(s))
    ELSE IF s[Len(s)] \in Whitespace THEN strip(SubSeq(s, 1, Len(s) - 1))
    ELSE s

\* text[i:j] with 0 <= i, counted from 0 as in the source.
StrSlice(text, i, j) == SubSeq(text, i + 1, IF j < Len(text) THEN j ELSE Len(text))

\* list(range(0, n, step)) for step > 0; range with a negative step and a
\* start below the stop is empty.
RECURSIVE Range(_, _, _)
Range(i, n, step) ==
    IF step <= 0 \/ i >= n THEN <<>> ELSE <<i>> \o Range(i + step, n, step)

\* _split_large_text and _split_by_characters (the same body): windows of
\* chunk_size characters every chunk_size - chunk_overlap characters, each
\* stripped. range() raises ValueError for a step of 0.
_split_by_characters(text, chunk_size, chunk_overlap) ==
    LET step == chunk_size - chunk_overlap
        starts == Range(0, Len(text), step)
    IN IF step = 0 THEN [status |-> "ValueError", chunks |-> <<>>]
       ELSE [status |-> "ok",
             chunks |-> [k \in DOMAIN starts |->
                            strip(StrSlice(text, starts[k], starts[k] + chunk_size))]]

_split_large_text(text, chunk_size, chunk_overlap) ==
    _split_by_characters(text, chunk_size, chunk_overlap)

\* The loop over parts from part i on, with the chunks and the current_chunk
\* built so far.
RECURSIVE PartsLoop(_, _, _, _, _, _, _)
PartsLoop(parts, i, sep, chunks_, current_chunk, chunk_size, chunk_overlap) ==
    IF i > Len(parts) THEN [status |-> "ok", chunks |-> chunks_, current_chunk |-> current_chunk]
    ELSE LET part == IF i > 1 THEN sep \o parts[i] ELSE parts[i]
             saved == IF current_chunk # <<>> THEN Append(chunks_, strip(current_chunk))
                      ELSE chunks_
             sub_chunks == _split_large_text(part, chunk_size, chunk_overlap)
         IN IF Len(current_chunk) + Len(part) > chunk_size
            THEN IF Len(part) > chunk_size
                 THEN IF sub_chunks.status # "ok"
                      THEN [status |-> sub_chunks.status, chunks |-> <<>>,
                            current_chunk |-> <<>>]
                      ELSE PartsLoop(parts, i + 1, sep, saved \o sub_chunks.chunks, <<>>,
                                     chunk_size, chunk_overlap)
                 ELSE PartsLoop(parts, i + 1, sep, saved, part, chunk_size, chunk_overlap)
            ELSE PartsLoop(parts, i + 1, sep, chunks_, current_chunk \o part,
                           chunk_size, chunk_overlap)

\* The loop of _merge_small_chunks over chunks[i..], with merged and current.
RECURSIVE MergeLoop(_, _, _, _, _)
MergeLoop(chunks_, i, merged, current, min_size) ==
    IF i > Len(chunks_) THEN Append(merged, current)
    ELSE IF Len(current) < min_size
         THEN MergeLoop(chunks_, i + 1, merged, current \o <<"\n">> \o chunks_[i], min_size)
         ELSE MergeLoop(chunks_, i + 1, Append(merged, current), chunks_[i], min_size)

_merge_small_chunks(chunks_, min_size) ==
    IF chunks_ = <<>> THEN chunks_ ELSE MergeLoop(chunks_, 2, <<>>, chunks_[1], min_size)

\* The first separator of the list that occurs in text, 0 when none does.
FirstSeparator(text) ==
    IF \E k \in DOMAIN Separators : Contains(text, Separators[k])
    THEN CHOOSE k \in DOMAIN Separators :
             /\ Contains(text, Separators[k])
             /\ \A j \in 1..(k - 1) : ~Contains(text, Separators[j])
    ELSE 0

\* split_text: the exception raised, or the chunks.
split_text(text, chunk_size, chunk_overlap) ==
    IF text = <<>> THEN [status |-> "ok", chunks |-> <<>>]
    ELSE IF FirstSeparator(text) # 0
    THEN LET separator == Separators[FirstSeparator(text)]
             r == PartsLoop(StrSplit(text, separator), 1, separator, <<>>, <<>>,
                            chunk_size, chunk_overlap)
             chunks_ == IF r.current_chunk # <<>>
                        THEN Append(r.chunks, strip(r.current_chunk)) ELSE r.chunks
         IN IF r.status # "ok" THEN [status |-> r.status, chunks |-> <<>>]
            ELSE [status |-> "ok", chunks |-> _merge_small_chunks(chunks_, MergeMinSize)]
    ELSE _split_by_characters(text, chunk_size, chunk_overlap)

\* One call of DocumentChunker(chunk_size, chunk_overlap).split_text(text) on
\* the input the state holds.
split_text_call ==
    /\ last.op = "input"
    /\ \E r \in {split_text(last.arg.text, last.arg.chunk_size, last.arg.chunk_overlap)} :
           Log("split_text", last.arg, r.status, r.chunks)
    /\ UNCHANGED <<cfgVars, kbVars>>

\* ---- generate_embeddings_batch, request by request
\* batch_size = 10 if is_qwen else 100
QwenBatchSize == 10
OtherBatchSize == 100
BatchSizeOf(is_qwen) == IF is_qwen THEN QwenBatchSize ELSE OtherBatchSize

\* The number of requests the loop makes for n texts.
Requests(n, batch_size) == (n + batch_size - 1) \div batch_size

\* The loop over range(0, len(texts), batch_size) from start i (counted from
\* 0) and request k on: each 200 response extends all_embeddings by the
\* vectors it holds, anything else raises.
RECURSIVE BatchLoop(_, _, _, _, _, _)
BatchLoop(texts, i, batch_size, answers, k, all_embeddings) ==
    IF i >= Len(texts) THEN [status |-> "ok", vecs |-> all_embeddings]
    ELSE LET batch == StrSlice(texts, i, i + batch_size)
             held == IF answers[k] = "short" THEN Len(batch) - 1 ELSE Len(batch)
             batch_embeddings == [j \in 1..held |-> Embed(batch[j])]
         IN IF answers[k] = "http_error" THEN [status |-> "ProviderError", vecs |-> <<>>]
            ELSE IF answers[k] = "bad_format" THEN [status |-> "FormatError", vecs |-> <<>>]
            ELSE BatchLoop(texts, i + batch_size, batch_size, answers, k + 1,
                           all_embeddings \o batch_embeddings)

\* generate_embeddings_batch(texts) with the endpoint's answer to each of
\* its requests; is_qwen is what the resolved config's provider and api_url
\* say.
generate_embeddings_batch_requests(tbl, texts, is_qwen, answers) ==
    LET r == ResolveForEmbedding(tbl, NoId) IN
    IF texts = <<>> THEN [status |-> "ok", vecs |-> <<>>]
    ELSE IF r.found = "none" THEN [status |-> "NoActiveConfiguration", vecs |-> <<>>]
    ELSE IF r.found = "multiple" THEN [status |-> "MultipleResultsFound", vecs |-> <<>>]
    ELSE BatchLoop(texts, 0, BatchSizeOf(is_qwen), answers, 1, <<>>)

\* The n texts of a batch call: the texts of EmbedTable, over and over.
TextsOf(n) == [i \in 1..n |-> ((i - 1) % Len(EmbedTable)) + 1]

\* One call of generate_embeddings_batch on the input the state holds.
generate_embeddings_batch_call ==
    /\ last.op = "batch_input"
    /\ \E r \in {generate_embeddings_batch_requests(configs, TextsOf(last.arg.count),
                     last.arg.is_qwen, last.arg.answers)} :
           Log("generate_embeddings_batch", last.arg, r.status, r.vecs)
    /\ UNCHANGED <<cfgVars, kbVars>>

\* The scoring step of _fuse_and_rank for one category, with the scores it
\* would give the category had one of the two signals been absent.
MaxKeywordScore == 6
FullSimilarity == 100

score_source(keyword_score, vector_score) ==
    /\ Log("combined_score",
           [keyword_score |-> keyword_score, vector_score |-> vector_score], "ok",
           [both |-> combined_score(keyword_score, vector_score),
            keyword_only |-> combined_score(keyword_score, 0),
            vector_only |-> combined_score(0, vector_score)])
    /\ UNCHANGED <<cfgVars, kbVars>>

\* The chunk table after vectorize_markdown_document has ingested document d
\* with an endpoint that answers every text.
Ingested(store, tbl, d) ==
    LET staged == Stage(store, d)
        texts == [i \in DOMAIN staged |-> staged[i].text]
        r == generate_embeddings_batch(tbl, texts, "ok")
    IN store \cup Rows(WithEmbeddings(staged, r.vecs, get_active_config(tbl)))

\* ------------------------------------------------------- specifications
Init ==
    /\ configs = [c \in CfgIds |-> NoConfig]
    /\ nextCfg = 1
    /\ tx = [s \in AdminSessions |-> IdleTx]
    /\ chunks = {}
    /\ ing = [s \in IngestSessions |-> IdleIngest]
    /\ done = {}
    /\ inflight = [s \in SearchSessions |-> IdleSearch]
    /\ last = [op |-> "init", arg |-> NoId, status |-> "ok", out |-> {}]

Quiet == UNCHANGED last

\* Admin calls one at a time (no two requests overlap).
NextSeq ==
    \E s \in AdminSessions :
        \/ create_config(s) /\ Log("create_config", nextCfg, "ok", {})
        \/ \E id \in CfgIds, flag \in BOOLEAN :
               set_active(s, id, flag) /\ Log("set_active", id, "ok", {flag})
        \/ \E id \in CfgIds :
               set_default(s, id) /\ Log("set_default", id, "ok", Defaults(configs))
        \/ \E id \in CfgIds :
               delete_config(s, id) /\ Log("delete_config", id, "ok", {})
        \/ \E id \in CfgIds, probe \in TestProbes :
               test_config(s, id, probe) /\ Log("test_config", id, "ok", {probe})
        \/ \E id \in CfgIds \cup {NoId}, answer \in ProviderAnswers :
               generate_embedding(id, answer)

SpecSeq == Init /\ [][NextSeq]_vars

\* Admin requests overlapping: set_default is three steps of its session.
NextCfg ==
    \E s \in AdminSessions :
        \/ create_config(s) /\ Quiet
        \/ \E id \in CfgIds, flag \in BOOLEAN : set_active(s, id, flag) /\ Quiet
        \/ \E id \in CfgIds : set_default_unset(s, id) /\ Quiet
        \/ set_default_set(s) /\ Quiet
        \/ set_default_commit(s) /\ Quiet
        \/ \E id \in CfgIds : delete_config(s, id) /\ Quiet

SpecCfg == Init /\ [][NextCfg]_vars

\* One ingest call at a time, overlapping admin calls and removals.
NextIngest ==
    \/ \E d \in DocNames : ingest_stage(Solo, d)
    \/ \E answer \in BatchAnswers : ingest_embed(Solo, answer)
    \/ ingest_persist(Solo)
    \/ \E d \in DocNames : delete_document_chunks(d) /\ Quiet
    \/ create_config("a1") /\ Quiet
    \/ \E id \in CfgIds : set_active("a1", id, FALSE) /\ Quiet
    \/ \E id \in CfgIds : set_default("a1", id) /\ Quiet

SpecIngest == Init /\ [][NextIngest]_vars

\* Ingest calls overlapping each other, with one config created and made
\* the default beforehand (create_config, then set_default on it).
InitOverlap ==
    /\ configs = SetNewDefaultStmt(
                     [[c \in CfgIds |-> NoConfig] EXCEPT ![1] = NewConfig], 1)
    /\ nextCfg = 2
    /\ tx = [s \in AdminSessions |-> IdleTx]
    /\ chunks = {}
    /\ ing = [s \in IngestSessions |-> IdleIngest]
    /\ done = {}
    /\ inflight = [s \in SearchSessions |-> IdleSearch]
    /\ last = [op |-> "init", arg |-> NoId, status |-> "ok", out |-> {}]

NextOverlap ==
    \/ \E s \in IngestSessions, d \in DocNames : ingest_stage(s, d)
    \/ \E s \in IngestSessions, answer \in BatchAnswers : ingest_embed(s, answer)
    \/ \E s \in IngestSessions : ingest_persist(s)
    \/ \E d \in DocNames : delete_document_chunks(d) /\ Quiet

SpecOverlap == InitOverlap /\ [][NextOverlap]_vars

SearchQueries == {"cough", "fatigue"}
SearchCategories == {NoCategory, "respiratory"}

\* Searches overlapping each other over a store that ingests build.
NextRace ==
    \/ \E d \in DocNames : vectorize_markdown_document(d, "ok")
    \/ \E s \in SearchSessions, query_text \in SearchQueries,
          disease_category \in SearchCategories :
           \E order \in ScanOrders(Matching(chunks, disease_category)) :
               /\ search_load(s, query_text, disease_category, DefaultTopK,
                              DefaultMinSimilarity, order)
               /\ Quiet
    \/ \E s \in SearchSessions : search_commit(s)

SpecRace == InitOverlap /\ [][NextRace]_vars

\* Searches one at a time over a store that ingests build, the default
\* config active.
NextSearch ==
    \/ \E d \in DocNames, answer \in BatchAnswers : vectorize_markdown_document(d, answer)
    \/ \E c \in chunks : deactivate_chunk(c.hash) /\ Log("deactivate", NoId, "ok", {})
    \/ \E query_text \in SearchQueries, disease_category \in SearchCategories,
          top_k \in TopKs, min_similarity \in MinSimilarities :
           \E order \in ScanOrders(Matching(chunks, disease_category)) :
               search_similar_chunks(query_text, disease_category, top_k, min_similarity,
                                     "ok", order)
    \/ \E query_text \in SearchQueries, answer \in ProviderAnswers \ {"ok"} :
           search_similar_chunks(query_text, NoCategory, DefaultTopK, DefaultMinSimilarity,
                                 answer, <<>>)

SpecSearch == InitOverlap /\ [][NextSearch]_vars

\* The categories select searches for a query.
Searched(symptoms, patient_age) ==
    LET m == _match_by_keywords(symptoms, patient_age)
    IN {m[i].category : i \in DOMAIN m}

\* Selections one at a time, the default config switched on and off. The
\* endpoint's answer is chosen for each search the call makes.
NextSelect ==
    \/ \E d \in DocNames, answer \in BatchAnswers : vectorize_markdown_document(d, answer)
    \/ \E flag \in BOOLEAN : set_active("a1", 1, flag) /\ Log("set_active", 1, "ok", {flag})
    \/ \E symptoms \in Symptoms, patient_age \in Ages, top_k \in {1, DefaultSources} :
           \/ select_knowledge_bases(symptoms, patient_age, top_k, FALSE,
                                     [c \in Categories |-> "ok"], <<>>)
           \/ \E failing \in SUBSET Searched(symptoms, patient_age),
                 order \in ScanOrders({c \in chunks :
                                          c.category \in Searched(symptoms, patient_age)}) :
                  select_knowledge_bases(symptoms, patient_age, top_k, TRUE,
                      [c \in Categories |-> IF c \in failing THEN "http_error" ELSE "ok"],
                      order)

SpecSelect == InitOverlap /\ [][NextSelect]_vars

\* Scores of one category: keyword scores up to the bound, similarities in
\* hundredths.
NextScore ==
    \E keyword_score \in 0..MaxKeywordScore, vector_score \in 0..FullSimilarity :
        score_source(keyword_score, vector_score)

SpecScore == InitOverlap /\ [][NextScore]_vars

\* Two of the orders a SELECT may return rows in: by text number, upwards
\* and downwards.
TextOrders ==
    LET n == Len(EmbedTable)
    IN {[i \in 1..n |-> sha256(i)], [i \in 1..n |-> sha256(n + 1 - i)]}

\* Selections over a store that holds a guideline of six chunks in one
\* category, all of them similar to the queries.
InitSources ==
    /\ configs = SetNewDefaultStmt(
                     [[c \in CfgIds |-> NoConfig] EXCEPT ![1] = NewConfig], 1)
    /\ nextCfg = 2
    /\ tx = [s \in AdminSessions |-> IdleTx]
    /\ chunks = Ingested({}, configs, "g1")
    /\ ing = [s \in IngestSessions |-> IdleIngest]
    /\ done = {}
    /\ inflight = [s \in SearchSessions |-> IdleSearch]
    /\ last = [op |-> "init", arg |-> NoId, status |-> "ok", out |-> {}]

SourceTopKs == {0, 1, DefaultSources}

NextSources ==
    \/ vectorize_markdown_document("d2", "ok")
    \/ \E symptoms \in Symptoms, patient_age \in Ages, top_k \in SourceTopKs,
          use_vector_search \in BOOLEAN, order \in TextOrders :
           select_knowledge_bases(symptoms, patient_age, top_k, use_vector_search,
                                  [c \in Categories |-> "ok"], order)

SpecSources == InitSources /\ [][NextSources]_vars

\* Chunker inputs: every text over Chars up to MaxTextLen characters, with
\* the chunker's two sizes.
MaxTextLen == 5
ChunkSizes == {3, 4}
ChunkOverlaps == 0..4
ChunkTexts == UNION {[1..n -> Chars] : n \in 0..MaxTextLen}

InitChunk ==
    /\ configs = [c \in CfgIds |-> NoConfig]
    /\ nextCfg = 1
    /\ tx = [s \in AdminSessions |-> IdleTx]
    /\ chunks = {}
    /\ ing = [s \in IngestSessions |-> IdleIngest]
    /\ done = {}
    /\ inflight = [s \in SearchSessions |-> IdleSearch]
    /\ last \in {[op |-> "input",
                  arg |-> [text |-> text, chunk_size |-> chunk_size,
                           chunk_overlap |-> chunk_overlap],
                  status |-> "ok", out |-> <<>>] :
                     text \in ChunkTexts, chunk_size \in ChunkSizes,
                     chunk_overlap \in ChunkOverlaps}

NextChunk == split_text_call

SpecChunk == InitChunk /\ [][NextChunk]_vars

\* Batch calls: up to MaxBatchTexts texts for either provider, and for the
\* provider with the larger batch also a full batch and one text more; the
\* endpoint's answer is chosen for every request.
MaxBatchTexts == 21
BatchCounts(is_qwen) ==
    (0..MaxBatchTexts) \cup (IF is_qwen THEN {} ELSE {OtherBatchSize, OtherBatchSize + 1})

BatchInputs ==
    UNION {UNION {{[count |-> n, is_qwen |-> q, answers |-> a] :
                      a \in [1..Requests(n, BatchSizeOf(q)) -> BatchAnswers]} :
                  n \in BatchCounts(q)} : q \in BOOLEAN}

InitBatch ==
    /\ configs = SetNewDefaultStmt(
                     [[c \in CfgIds |-> NoConfig] EXCEPT ![1] = NewConfig], 1)
    /\ nextCfg = 2
    /\ tx = [s \in AdminSessions |-> IdleTx]
    /\ chunks = {}
    /\ ing = [s \in IngestSessions |-> IdleIngest]
    /\ done = {}
    /\ inflight = [s \in SearchSessions |-> IdleSearch]
    /\ last \in {[op |-> "batch_input", arg |-> a, status |-> "ok", out |-> <<>>] :
                    a \in BatchInputs}

NextBatch == generate_embeddings_batch_call

SpecBatch == InitBatch /\ [][NextBatch]_vars


\* ------------------------------------------------------------- claims
EmbeddingErrors == {"NoActiveConfiguration", "MultipleResultsFound",
                    "ProviderError", "FormatError"}

\* C1: an ingest call whose embedding generation fails (provider error, bad
\* response format, no resolvable config) persists none of its staged
\* chunks: the call gets past the embedding step only when the endpoint
\* answered with vectors for a resolved config, the step at which it fails
\* ends the call with the error and leaves the stored chunks as they were,
\* and no step of the call before the persist step writes to the store.
C1_FailedEmbeddingPersistsNothing ==
    [][\A s \in IngestSessions :
        /\ (ing[s].pc = "staged" /\ ing'[s].pc = "idle")
               => (chunks' = chunks /\ last'.op = "ingest"
                   /\ last'.status \in EmbeddingErrors)
        /\ (ing[s].pc = "staged" /\ ing'[s].pc = "embedded")
               => (ing'[s].answer \in {"ok", "short"}
                   /\ ResolveForEmbedding(configs, NoId).found = "one")
        /\ (ing[s].pc # "embedded" /\ ing'[s].pc # ing[s].pc) => chunks' = chunks
      ]_vars

C1_Witness ==
    /\ last.op = "ingest"
    /\ last.status \in {"ProviderError", "FormatError", "NoActiveConfiguration"}
    /\ chunks # {}

\* C2: no two active stored chunks have the same content hash.
C2_UniqueActiveHash ==
    \A c1, c2 \in chunks :
        (c1.is_active /\ c2.is_active /\ c1.hash = c2.hash) => c1 = c2

C2_Witness ==
    /\ {"d1", "d2"} \subseteq done
    /\ Cardinality(chunks) = 3
    /\ last.op = "ingest" /\ last.status = "IntegrityError"

\* C3: an ingest call made for a document whose ingest has succeeded (and
\* none of whose rows has been removed since) stages nothing, reports
\* new_chunks = 0 and leaves the store as it was.
C3_ReingestAddsNothing ==
    /\ [](\A s \in IngestSessions : ing[s].pc # "idle" => ~ing[s].again)
    /\ []((last.op = "ingest" /\ last.arg.again)
              => (last.status = "ok" /\ \A r \in last.out : r.new_chunks = 0))
    /\ [][(last' # last /\ last'.op = "ingest" /\ last'.arg.again)
              => chunks' = chunks]_vars

C3_Witness ==
    /\ last.op = "ingest"
    /\ last.arg.again
    /\ last.status = "ok"
    /\ chunks # {}

\* C4: set_default calls that overlap each other take effect one after the
\* other: no committed state has two configs with is_default = true, and
\* the commit of a set_default whose UPDATE matched its config never leaves
\* the table without a default.
C4_SetDefaultIndivisible ==
    [][/\ Cardinality(Defaults(configs')) <= 1
       /\ \A s \in AdminSessions :
              (tx[s].pc = "set" /\ tx'[s].pc = "idle"
                  /\ tx[s].target \in DOMAIN tx[s].writes)
                  => Defaults(configs') # {}
      ]_vars

\* C5: with admin calls run one at a time, at most one active config is the
\* default.
C5_AtMostOneActiveDefault == Cardinality(ActiveDefaults(configs)) <= 1

C5_Witness ==
    /\ Cardinality(Actives(configs)) = 2
    /\ Cardinality(ActiveDefaults(configs)) = 1
    /\ last.op = "set_default"
    /\ last.out # {} /\ last.arg \notin last.out

\* C6: after set_default on an existing config has completed (in
\* particular after set_default(A) followed by set_default(B)), exactly one
\* config is both active and default.
C6_ExactlyOneAfterSetDefault ==
    (last.op = "set_default" /\ configs[last.arg].exists)
        => Cardinality(ActiveDefaults(configs)) = 1

\* set_default(B) has completed and unset the default that set_default(A)
\* had set, A # B.
C6_Witness ==
    /\ last.op = "set_default"
    /\ configs[last.arg].exists
    /\ \E a \in last.out : a # last.arg /\ configs[a].exists /\ configs[a].is_active
    /\ ActiveDefaults(configs) = {last.arg}

\* C8: generate_embedding without a config_id uses the active default if
\* there is one, otherwise an active config, and fails with
\* NoActiveConfiguration only when no config is active; with a config_id it
\* fails unless that config is active.
C8_ResolveActive ==
    (last.op = "generate_embedding") =>
        IF last.arg = NoId
        THEN IF ActiveDefaults(configs) # {}
             THEN last.out \subseteq ActiveDefaults(configs)
             ELSE IF Actives(configs) # {}
                  THEN last.out \subseteq Actives(configs)
                  ELSE last.status = "NoActiveConfiguration"
        ELSE (last.status = "NoActiveConfiguration") <=> (last.arg \notin Actives(configs))

\* C7: with no active embedding config, select with use_vector_search = true
\* fails with NoActiveConfiguration; it never returns a result.
C7_SelectFailsWithoutActiveConfig ==
    (last.op = "select" /\ last.arg.use_vector_search /\ Actives(configs) = {})
        => last.status = "NoActiveConfiguration"

\* The stored row a result entry was formatted from.
RowOf(id) == CHOOSE c \in chunks : c.hash = id

\* C9: the results of a search are in descending order of similarity, equal
\* similarities by higher retrieval_count first and then by lower
\* chunk_index first.
C9_ResultOrderDetermined ==
    (last.op = "search" /\ last.status = "ok") =>
        \A i, j \in DOMAIN last.out :
            i < j =>
                \/ last.out[i].similarity_score > last.out[j].similarity_score
                \/ /\ last.out[i].similarity_score = last.out[j].similarity_score
                   /\ \/ RowOf(last.out[i].id).retrieval_count
                             > RowOf(last.out[j].id).retrieval_count
                      \/ /\ RowOf(last.out[i].id).retrieval_count
                                = RowOf(last.out[j].id).retrieval_count
                         /\ RowOf(last.out[i].id).chunk_index
                                <= RowOf(last.out[j].id).chunk_index

\* The eligible chunks of the search that last describes.
Eligible ==
    {c \in chunks :
        /\ c.is_active
        /\ c.embedding # <<>>
        /\ (last.arg.disease_category # NoCategory
               => c.category = last.arg.disease_category)
        /\ _cosine_similarity(SymptomTable[last.arg.query_text].vec, c.embedding)
               >= last.arg.min_similarity}

\* C10: a search returns the top_k best of the eligible chunks: every entry
\* is an eligible chunk with its similarity, no chunk is returned twice,
\* there are min(top_k, number of eligible chunks) entries, and no eligible
\* chunk left out has a higher similarity than a returned one.
C10_TopKOfEligible ==
    (last.op = "search" /\ last.status = "ok") =>
        LET ids == {last.out[i].id : i \in DOMAIN last.out} IN
        /\ \A i \in DOMAIN last.out :
              /\ \E c \in Eligible : c.hash = last.out[i].id
              /\ last.out[i].similarity_score
                     = _cosine_similarity(SymptomTable[last.arg.query_text].vec,
                                          RowOf(last.out[i].id).embedding)
              /\ last.out[i].similarity_score >= last.arg.min_similarity
        /\ Cardinality(ids) = Len(last.out)
        /\ Len(last.out) <= last.arg.top_k
        /\ Len(last.out) = IF Cardinality(Eligible) < last.arg.top_k
                           THEN Cardinality(Eligible) ELSE last.arg.top_k
        /\ \A c \in Eligible : c.hash \notin ids =>
              \A i \in DOMAIN last.out :
                  _cosine_similarity(SymptomTable[last.arg.query_text].vec, c.embedding)
                      <= last.out[i].similarity_score

\* A search that returned top_k chunks, left out an eligible one and passed
\* over one that is not eligible.
C10_Witness ==
    /\ last.op = "search" /\ last.status = "ok"
    /\ Len(last.out) = last.arg.top_k
    /\ Cardinality(Eligible) > Len(last.out)
    /\ chunks \ Eligible # {}

\* C11: a search adds exactly 1 to retrieval_count of every chunk it returns
\* and changes no other field and no other chunk; no row appears or
\* disappears.
C11_SearchCountsReturnedOnly ==
    [][last'.op = "search" =>
        LET ids == {last'.out[i].id : i \in DOMAIN last'.out}
        IN chunks' = {IF c.hash \in ids
                      THEN [c EXCEPT !.retrieval_count = c.retrieval_count + 1]
                      ELSE c : c \in chunks}
      ]_vars

\* A search has returned one chunk and passed over another active one.
C11_Witness ==
    /\ last.op = "search" /\ last.status = "ok"
    /\ \E c \in chunks : c.retrieval_count = 1
                         /\ \E i \in DOMAIN last.out : last.out[i].id = c.hash
    /\ \E c \in chunks : c.is_active /\ c.embedding # <<>> /\ c.retrieval_count = 0

\* C12: with searches overlapping, the committed retrieval_count of a chunk
\* never decreases from one state to the next.
C12_CounterMonotonic ==
    [][\A c \in chunks : \A d \in chunks' :
           d.hash = c.hash => d.retrieval_count >= c.retrieval_count]_vars

\* C13: no operation removes a stored chunk: every chunk in the store
\* before a step is still in the store after it.
C13_ChunksNeverRemoved ==
    [][\A c \in chunks : \E d \in chunks' : d.hash = c.hash]_vars

\* C14: every stored chunk has an embedding, and its length is the
\* vector_dimension of the configuration that embedding_model_id names.
C14_EveryChunkHasEmbedding ==
    \A c \in chunks : /\ c.embedding # <<>>
                      /\ c.model # {}
                      /\ Len(c.embedding) = VectorDimension

\* C15: the report of a successful ingest has total_chunks = new_chunks +
\* duplicates and new_chunks = len(chunk_ids), and duplicates is the number
\* of the document's chunks that were skipped because their hash was stored.
C15_ReportCountsDuplicates ==
    [][\A s \in IngestSessions :
           (ing[s].pc = "embedded" /\ ing'[s].pc = "idle" /\ last'.status = "ok") =>
               \A report \in last'.out :
                   /\ report.total_chunks = report.new_chunks + report.duplicates
                   /\ report.new_chunks = Len(report.chunk_ids)
                   /\ report.duplicates =
                          Len(Positions(Catalogue[ing[s].doc].sections, 1))
                              - Len(ing[s].staged)
      ]_vars

\* C16: a selection called with top_k >= 0 returns at most top_k sources,
\* and each source holds at most 5 chunks.
C16_SourcesBounded ==
    last.op = "select" =>
        /\ Len(last.out.sources) <= last.arg.top_k
        /\ \A i \in DOMAIN last.out.sources : Len(last.out.sources[i].chunks) <= 5

C16_Witness ==
    /\ last.op = "select"
    /\ Len(last.out.sources) = last.arg.top_k
    /\ Len(last.out.all_matched_categories) > last.arg.top_k
    /\ \E i \in DOMAIN last.out.sources :
           /\ Len(last.out.sources[i].chunks) = 5
           /\ Cardinality({c \in chunks : c.category = last.out.sources[i].category
                                          /\ c.is_active /\ c.embedding # <<>>}) > 5

\* C17: for a positive keyword score and a positive vector score, the
\* combined score is at least the score of the keyword signal alone and at
\* least the score of the vector signal alone.
C17_BothSignalsNoWorse ==
    (last.op = "combined_score" /\ last.arg.keyword_score > 0 /\ last.arg.vector_score > 0)
        => /\ last.out.both >= last.out.keyword_only
           /\ last.out.both >= last.out.vector_only

C17_Witness ==
    /\ last.op = "combined_score"
    /\ last.arg.keyword_score > 0 /\ last.arg.vector_score > 0
    /\ last.out.both > last.out.keyword_only
    /\ last.out.both > last.out.vector_only

\* C18: a selection with use_vector_search on whose symptoms match no keyword
\* still runs a similarity search; it does not return without searching.
C18_VectorSearchAlwaysRuns ==
    (/\ last.op = "select"
     /\ last.arg.use_vector_search
     /\ last.out.all_matched_categories = <<>>) => last.out.searched # <<>>

\* C19: keyword matching returns only categories of which at least one
\* keyword occurs in the symptoms, whatever the patient's age.
C19_MatchedCategoriesHaveKeyword ==
    last.op = "select" =>
        \A i \in DOMAIN last.out.all_matched_categories :
            DISEASE_KEYWORDS[last.out.all_matched_categories[i]].keywords
                \cap SymptomTable[last.arg.symptoms].contains # {}

\* C20: with chunk_overlap below chunk_size, split_text returns no chunk for
\* the empty text and exactly one chunk for a non-empty text shorter than
\* chunk_size, with or without a separator in it.
C20_ShortTextOneChunk ==
    (last.op = "split_text" /\ last.arg.chunk_overlap < last.arg.chunk_size) =>
        /\ last.arg.text = <<>> => (last.status = "ok" /\ last.out = <<>>)
        /\ (last.arg.text # <<>> /\ Len(last.arg.text) < last.arg.chunk_size) =>
               (last.status = "ok" /\ Len(last.out) = 1)

\* C21: a chunker whose chunk_overlap is chunk_size or more never returns a
\* chunk list: every split_text call on it ends in an error.
C21_BadOverlapRejected ==
    (last.op = "split_text" /\ last.arg.chunk_overlap >= last.arg.chunk_size)
        => last.status # "ok"

\* The characters of s that are not whitespace, in order.
NonWhitespace(s) == SelectSeq(s, LAMBDA ch : ch \notin Whitespace)

\* The chunks from chunk k on, each without an overlap of at most overlap
\* leading characters (none for the first chunk), spell target.
RECURSIVE Reassembles(_, _, _, _)
Reassembles(chunks_, k, overlap, target) ==
    IF k > Len(chunks_) THEN target = <<>>
    ELSE LET body == NonWhitespace(chunks_[k])
         IN \E d \in 0..(IF k = 1 THEN 0 ELSE overlap) :
               /\ d <= Len(body)
               /\ LET rest == SubSeq(body, d + 1, Len(body))
                  IN /\ Len(rest) <= Len(target)
                     /\ SubSeq(target, 1, Len(rest)) = rest
                     /\ Reassembles(chunks_, k + 1, overlap,
                                    SubSeq(target, Len(rest) + 1, Len(target)))

\* C22: with chunk_overlap below chunk_size, the chunks of split_text, each
\* taken without its overlap with the one before (at most chunk_overlap
\* characters), spell the text's non-whitespace characters in order.
C22_ChunksReassembleText ==
    (last.op = "split_text" /\ last.arg.chunk_overlap < last.arg.chunk_size) =>
        /\ last.status = "ok"
        /\ Reassembles(last.out, 1, last.arg.chunk_overlap, NonWhitespace(last.arg.text))

\* C23: a batch call that succeeds returns one vector per text, the i-th
\* being the embedding of the i-th text, however the texts fall into
\* requests; a call one of whose requests fails raises and returns nothing.
C23_OneVectorPerText ==
    last.op = "generate_embeddings_batch" =>
        LET texts == TextsOf(last.arg.count)
        IN /\ last.status = "ok" =>
                  /\ Len(last.out) = Len(texts)
                  /\ \A i \in DOMAIN texts : last.out[i] = Embed(texts[i])
           /\ (\E k \in DOMAIN last.arg.answers :
                   last.arg.answers[k] \in {"http_error", "bad_format"}) =>
                  (last.status # "ok" /\ last.out = <<>>)

\* C24: every chunk an ingest call stores with an embedding carries the
\* model of the config that generated the embedding, whatever the admin
\* calls did between the embedding request and the commit.
C24_ModelOfGeneratingConfig ==
    [][\A s \in IngestSessions :
           (ing[s].pc = "embedded" /\ ing'[s].pc = "idle") =>
               \A c \in chunks' \ chunks :
                   c.embedding # <<>> => c.model = {ing[s].by}
      ]_vars

\* C25: the chunks one ingest call stores have pairwise distinct chunk_index
\* values, and a chunk of a later section has a larger chunk_index than a
\* chunk of an earlier one.
C25_ChunkIndexIsDocumentPosition ==
    [][\A s \in IngestSessions :
           (ing[s].pc = "embedded" /\ ing'[s].pc = "idle") =>
               \A c1, c2 \in chunks' \ chunks :
                   /\ c1 # c2 => c1.chunk_index # c2.chunk_index
                   /\ c1.section < c2.section => c1.chunk_index < c2.chunk_index
      ]_vars

\* C26: the reason of every selected source names the signals that chose it:
\* both for a category with a keyword match and a vector hit, otherwise the
\* one signal it has.
C26_ReasonNamesSignals ==
    last.op = "select" =>
        \A i \in DOMAIN last.out.sources :
            LET source == last.out.sources[i]
                by_keyword == \E j \in DOMAIN last.out.all_matched_categories :
                                  last.out.all_matched_categories[j] = source.category
                by_vector == source.chunks # <<>>
            IN source.selection_reason.kind =
                   IF by_keyword /\ by_vector THEN "both"
                   ELSE IF by_keyword THEN "keyword" ELSE "vector"

\* C27: an ingest whose document holds the same chunk text more than once
\* succeeds and leaves each of the document's new texts stored.
C27_RepeatedTextIngested ==
    [][\A s \in IngestSessions :
           (/\ ing[s].pc = "embedded" /\ ing'[s].pc = "idle"
            /\ get_active_config(configs).found # "multiple"
            /\ \E i, j \in DOMAIN ing[s].staged :
                   i < j /\ ing[s].staged[i].hash = ing[s].staged[j].hash) =>
               /\ last'.status = "ok"
               /\ \A i \in DOMAIN ing[s].staged :
                      \E c \in chunks' : c.hash = ing[s].staged[i].hash
      ]_vars

\* C28: an ingest call that commits after another call has stored one of the
\* texts it staged (both looked up before either committed) succeeds, and
\* every text it staged is then stored exactly once.
C28_InterleavedIngestsBothSucceed ==
    [][\A s \in IngestSessions :
           (/\ ing[s].pc = "embedded" /\ ing'[s].pc = "idle"
            /\ \E i \in DOMAIN ing[s].staged : existing(chunks, ing[s].staged[i].hash)) =>
               /\ last'.status = "ok"
               /\ \A i \in DOMAIN ing[s].staged :
                      Cardinality({c \in chunks' : c.hash = ing[s].staged[i].hash}) = 1
      ]_vars

\* C29: with chunk_overlap below chunk_size, every chunk split_text returns
\* is non-empty and at most chunk_size characters long.
C29_ChunksBounded ==
    (last.op = "split_text" /\ last.arg.chunk_overlap < last.arg.chunk_size) =>
        /\ last.status = "ok"
        /\ \A k \in DOMAIN last.out :
               /\ last.out[k] # <<>>
               /\ Len(last.out[k]) <= last.arg.chunk_size

\* C30: no config is active while its test_status is still 'untested'.
C30_ActiveOnlyAfterTest ==
    \A c \in Existing(configs) :
        configs[c].is_active => configs[c].test_status # "untested"

====
